---- MODULE Spec2Model ----
(***************************************************************************)
(* A model of audio_denoise.py: the time-range parser, the noise-clip      *)
(* extractor, process_file and the command-line driver main().             *)
(*                                                                         *)
(* Strings that the program inspects character by character (the           *)
(* --noise-position expression) are sequences of one-character strings.    *)
(* Python floats are modelled as exact decimals [m, k] = m / 10^k, kept in *)
(* normal form (k is the least possible), so value equality is record      *)
(* equality.  Binary floating-point rounding is not modelled.              *)
(***************************************************************************)
EXTENDS Integers, Sequences, FiniteSets, TLC

VARIABLES
    pc,                  \* position of the single thread of control
    inputKind,           \* what args.input names: "file", "dir" or "missing"
    tree,                \* entries below args.input (the one file in file mode)
    recursive,           \* args.recursive
    test_noise,          \* args.test_noise
    noise_position,      \* args.noise_position, a sequence of characters
    caseInsensitiveGlob, \* platform: pathlib matches patterns ignoring case
    outDirs,             \* directories that exist at or below output_dir
    outFiles,            \* files below output_dir: set of [path, content]
    audio_files,         \* main(): the collected list
    idx,                 \* main(): number of list items taken by the for loop
    success_count,       \* main(): success_count (single mode: 1 iff success)
    exitCode,            \* process exit status, -1 while running
    tally,               \* the final "成功: s/n" line, None until printed
    input_path,          \* process_file argument
    output_path,         \* process_file argument
    audio,               \* process_file local: [len, sr, channels]
    total_duration,      \* process_file local / parse and extract argument
    time_range,          \* process_file local / extract argument
    noise_clip,          \* process_file local / extract result
    cleaned_audio,       \* process_file local
    success,             \* value returned by process_file
    failedStep,          \* history: the statement of process_file that raised
    results,             \* history: value returned for each job, in order
    jobs,                \* history: [input, output] of every process_file call
    steps,               \* history: the steps the current call has executed
    denoiseCalls         \* history: number of calls of the external denoiser

vars == <<pc, inputKind, tree, recursive, test_noise, noise_position,
          caseInsensitiveGlob, outDirs, outFiles, audio_files, idx,
          success_count, exitCode, tally, input_path, output_path, audio,
          total_duration, time_range, noise_clip, cleaned_audio, success,
          failedStep, results, jobs, steps, denoiseCalls>>

None == "None"

(***************************************************************************)
(* Bounds of the model.                                                    *)
(***************************************************************************)
MaxLen == 3      \* longest generated --noise-position expression
MaxFiles == 2    \* most entries in the input directory tree

(***************************************************************************)
(* Characters and strings.                                                 *)
(***************************************************************************)
Digit == {"0", "1", "2", "3", "4", "5", "6", "7", "8", "9"}

DigitVal(c) ==
    CASE c = "0" -> 0 [] c = "1" -> 1 [] c = "2" -> 2 [] c = "3" -> 3
      [] c = "4" -> 4 [] c = "5" -> 5 [] c = "6" -> 6 [] c = "7" -> 7
      [] c = "8" -> 8 [] c = "9" -> 9

\* str.lower() on one character (the letters that occur in the inputs)
LowerChar(c) ==
    CASE c = "S" -> "s" [] c = "T" -> "t" [] c = "A" -> "a" [] c = "R" -> "r"
      [] c = "E" -> "e" [] c = "N" -> "n" [] c = "D" -> "d"
      [] OTHER -> c

Lower(s) == [j \in 1..Len(s) |-> LowerChar(s[j])]

Contains(s, c) == \E j \in 1..Len(s) : s[j] = c

RECURSIVE LStrip(_, _)
LStrip(s, c) == IF s # <<>> /\ Head(s) = c THEN LStrip(Tail(s), c) ELSE s

RECURSIVE RStrip(_, _)
RStrip(s, c) ==
    IF s # <<>> /\ s[Len(s)] = c THEN RStrip(SubSeq(s, 1, Len(s) - 1), c) ELSE s

\* str.strip(c): removes every leading and trailing c
Strip(s, c) == RStrip(LStrip(s, c), c)

\* str.split(c): the pieces between the occurrences of c
RECURSIVE Split(_, _)
Split(s, c) ==
    IF ~Contains(s, c) THEN <<s>>
    ELSE LET p == CHOOSE j \in 1..Len(s) :
                      s[j] = c /\ \A h \in 1..(j - 1) : s[h] # c
         IN  <<SubSeq(s, 1, p - 1)>> \o Split(SubSeq(s, p + 1, Len(s)), c)

(***************************************************************************)
(* Exact decimals.                                                         *)
(***************************************************************************)
RECURSIVE Pow10(_)
Pow10(n) == IF n = 0 THEN 1 ELSE 10 * Pow10(n - 1)

RECURSIVE Dec(_, _)
Dec(m, k) ==
    IF k > 0 /\ m % 10 = 0 THEN Dec(m \div 10, k - 1) ELSE [m |-> m, k |-> k]

Max2(a, b) == IF a >= b THEN a ELSE b
Scaled(x, K) == x.m * Pow10(K - x.k)

DAdd(x, y) == LET K == Max2(x.k, y.k) IN Dec(Scaled(x, K) + Scaled(y, K), K)
DSub(x, y) == LET K == Max2(x.k, y.k) IN Dec(Scaled(x, K) - Scaled(y, K), K)
DMul(x, y) == Dec(x.m * y.m, x.k + y.k)
DDiv100(x) == Dec(x.m, x.k + 2)
DLt(x, y) == LET K == Max2(x.k, y.k) IN Scaled(x, K) < Scaled(y, K)
DLe(x, y) == ~DLt(y, x)

Zero == Dec(0, 0)
One == Dec(1, 0)
Tenth == Dec(1, 1)

\* n / sr for the sample rates of the model (sr divides n * 1000)
DivInt(n, sr) ==
    LET k == CHOOSE h \in 0..3 :
                 (n * Pow10(h)) % sr = 0
                 /\ \A g \in 0..(h - 1) : (n * Pow10(g)) % sr # 0
    IN  Dec((n * Pow10(k)) \div sr, k)

\* int(x * sr): truncation towards zero
IntMul(x, sr) ==
    LET p == x.m * sr
    IN  IF p >= 0 THEN p \div Pow10(x.k) ELSE 0 - ((0 - p) \div Pow10(x.k))

\* Python's min(a, b) and max(a, b): the first argument unless the second
\* is strictly smaller (larger)
PyMin(a, b) == IF DLt(b, a) THEN b ELSE a
PyMax(a, b) == IF DLt(a, b) THEN b ELSE a

(***************************************************************************)
(* float(str): a left-to-right scan.  Leading and trailing blanks are      *)
(* skipped, then sign, integer digits, '.', fraction digits and exponent.  *)
(* The result is [ok |-> FALSE] for ValueError, else [ok |-> TRUE, val].   *)
(* Underscore digit separators and the spellings inf/nan are not part of   *)
(* the modelled character set.                                             *)
(***************************************************************************)
RECURSIVE DigitRun(_)
DigitRun(s) ==
    IF s # <<>> /\ Head(s) \in Digit THEN 1 + DigitRun(Tail(s)) ELSE 0

RECURSIVE NatVal(_)
NatVal(s) ==
    IF s = <<>> THEN 0 ELSE 10 * NatVal(SubSeq(s, 1, Len(s) - 1)) + DigitVal(s[Len(s)])

Drop(s, n) == SubSeq(s, n + 1, Len(s))
Take(s, n) == SubSeq(s, 1, n)

ValueError == [ok |-> FALSE]

\* the value sign * mant * 10^(-sc)
MakeDec(neg, mant, sc) ==
    IF sc >= 0 THEN Dec(IF neg THEN 0 - mant ELSE mant, sc)
    ELSE Dec((IF neg THEN 0 - mant ELSE mant) * Pow10(0 - sc), 0)

\* the end of the scan: some digit in the mantissa, digits after an 'e',
\* nothing left over
ScanEnd(rest, neg, int, frac, ex, expOk) ==
    IF Len(int) + Len(frac) = 0 \/ ~expOk \/ rest # <<>>
    THEN ValueError
    ELSE [ok |-> TRUE, val |-> MakeDec(neg, NatVal(int \o frac), Len(frac) - ex)]

\* the digits of the exponent
ScanExpDigits(s, neg, int, frac, eneg) ==
    ScanEnd(Drop(s, DigitRun(s)), neg, int, frac,
            IF eneg THEN 0 - NatVal(Take(s, DigitRun(s))) ELSE NatVal(Take(s, DigitRun(s))),
            DigitRun(s) > 0)

\* an optional exponent: 'e' or 'E', an optional sign, digits
ScanExp(s, neg, int, frac) ==
    IF s # <<>> /\ Head(s) \in {"e", "E"}
    THEN ScanExpDigits(IF Tail(s) # <<>> /\ Head(Tail(s)) \in {"+", "-"}
                       THEN Tail(Tail(s)) ELSE Tail(s),
                       neg, int, frac, Tail(s) # <<>> /\ Head(Tail(s)) = "-")
    ELSE ScanEnd(s, neg, int, frac, 0, TRUE)

\* an optional '.' and the fraction digits
ScanFrac(s, neg, int) ==
    IF s # <<>> /\ Head(s) = "."
    THEN ScanExp(Drop(Tail(s), DigitRun(Tail(s))), neg, int,
                 Take(Tail(s), DigitRun(Tail(s))))
    ELSE ScanExp(s, neg, int, <<>>)

\* the integer digits
ScanInt(s, neg) == ScanFrac(Drop(s, DigitRun(s)), neg, Take(s, DigitRun(s)))

\* an optional sign
ScanSign(s) ==
    ScanInt(IF s # <<>> /\ Head(s) \in {"+", "-"} THEN Tail(s) ELSE s,
            s # <<>> /\ Head(s) = "-")

PyFloat(str) == ScanSign(Strip(str, " "))

(***************************************************************************)
(* parse_time_range                                                        *)
(***************************************************************************)
Str_start == <<"s", "t", "a", "r", "t">>
Str_end == <<"e", "n", "d">>

\* the value of the except branch
ParseFallback == <<Zero, One>>

\* variant: only the first two pieces are looked at
SplitRangeFirstTwo(time_str) ==
    LET parts == Split(time_str, "-")
    IN  IF Len(parts) < 2 THEN ValueError
        ELSE LET a == PyFloat(parts[1])
                 b == PyFloat(parts[2])
             IN  IF a.ok /\ b.ok THEN [ok |-> TRUE, val |-> <<a.val, b.val>>]
                 ELSE ValueError

\* "start, end = map(float, time_str.split('-'))": exactly two pieces, both floats
SplitRange(time_str) ==
    LET parts == Split(time_str, "-")
    IN  IF Len(parts) # 2 THEN ValueError
        ELSE LET a == PyFloat(parts[1])
                 b == PyFloat(parts[2])
             IN  IF a.ok /\ b.ok THEN [ok |-> TRUE, val |-> <<a.val, b.val>>]
                 ELSE ValueError

\* the body of the try block: [ok |-> FALSE] when a statement raises
ParseTry(time_str, duration) ==
    IF Lower(time_str) = Str_start THEN [ok |-> TRUE, val |-> <<Zero, One>>]
    ELSE IF Lower(time_str) = Str_end
    THEN [ok |-> TRUE, val |-> <<DSub(duration, One), duration>>]
    ELSE IF Contains(time_str, "%")
    THEN LET f == PyFloat(Strip(time_str, "%"))
         IN  IF f.ok
             THEN [ok |-> TRUE, val |-> <<Zero, DMul(duration, DDiv100(f.val))>>]
             ELSE ValueError
    ELSE IF Contains(time_str, "-")
    THEN SplitRange(time_str)
    ELSE LET f == PyFloat(time_str)
         IN  IF f.ok THEN [ok |-> TRUE, val |-> <<f.val, DAdd(f.val, One)>>]
             ELSE ValueError

\* [raised, val]: raised tells whether an exception leaves the function
parse_time_range(time_str, duration) ==
    LET r == ParseTry(time_str, duration)
    IN  IF r.ok THEN [raised |-> FALSE, val |-> r.val]
        ELSE [raised |-> FALSE, val |-> ParseFallback]

(***************************************************************************)
(* extract_noise_clip: the clamped times, the slice bounds and the number  *)
(* of samples of audio[start_sample:end_sample]                            *)
(***************************************************************************)
SliceLen(n, a, b) ==
    LET lo == IF a > n THEN n ELSE a
        hi == IF b > n THEN n ELSE b
    IN  IF hi > lo THEN hi - lo ELSE 0

extract_noise_clip(au, sr, range, duration) ==
    LET start_time == PyMax(Zero, PyMin(range[1], DSub(duration, Tenth)))
        end_time == PyMax(DAdd(start_time, Tenth), PyMin(range[2], duration))
        start_sample == IntMul(start_time, sr)
        end_sample == IntMul(end_time, sr)
    IN  [start_time |-> start_time, end_time |-> end_time,
         start_sample |-> start_sample, end_sample |-> end_sample,
         len |-> SliceLen(au.len, start_sample, end_sample)]

(***************************************************************************)
(* The input tree, paths and Path.glob.                                    *)
(* An entry is [dir, stem, ext, kind]: dir is the parent directory relative*)
(* to args.input ("." or "sub"), stem + ext is the file name, kind tells   *)
(* a regular file from a directory.                                        *)
(***************************************************************************)
extensions == <<".flac", ".wav", ".mp3", ".ogg", ".aiff">>

\* str.upper() on the entries of extensions
Upper(e) ==
    CASE e = ".flac" -> ".FLAC" [] e = ".wav" -> ".WAV" [] e = ".mp3" -> ".MP3"
      [] e = ".ogg" -> ".OGG" [] e = ".aiff" -> ".AIFF"

\* case folding of a name suffix, as a case-insensitive match applies it
LowerExt(e) ==
    CASE e \in {".FLAC", ".Flac"} -> ".flac"
      [] e \in {".WAV", ".Wav"} -> ".wav"
      [] e \in {".MP3", ".Mp3"} -> ".mp3"
      [] e \in {".OGG", ".Ogg"} -> ".ogg"
      [] e \in {".AIFF", ".Aiff"} -> ".aiff"
      [] e = ".TXT" -> ".txt"
      [] OTHER -> e

\* the entries that args.input may hold
TreeUniverse ==
    {[dir |-> ".", stem |-> "a", ext |-> e, kind |-> "file"] :
        e \in {".wav", ".WAV", ".Wav", ".txt"}}
    \cup {[dir |-> "sub", stem |-> "a", ext |-> ".wav", kind |-> "file"],
          [dir |-> ".", stem |-> "d", ext |-> ".flac", kind |-> "dir"]}

\* on a platform whose names ignore case, two entries of one directory
\* cannot differ in case only
TreeOK(t, ci) ==
    ci => \A f \in t, g \in t :
              (f.dir = g.dir /\ f.stem = g.stem /\ LowerExt(f.ext) = LowerExt(g.ext))
              => f = g

\* fnmatch of a name against "*" + pat
SuffixMatch(ext, pat) ==
    IF caseInsensitiveGlob THEN LowerExt(ext) = LowerExt(pat) ELSE ext = pat

\* input_dir.glob(search_pattern + pat): "*" lists the directory itself,
\* "**/*" every directory below it as well; directories match like files
Glob(pat) ==
    {f \in tree : (recursive \/ f.dir = ".") /\ SuffixMatch(f.ext, pat)}

\* the patterns in the order of the for loop: ext, ext.upper()
Patterns ==
    [n \in 1..(2 * Len(extensions)) |->
        IF n % 2 = 1 THEN extensions[(n + 1) \div 2] ELSE Upper(extensions[n \div 2])]

\* the orders in which a directory scan may yield a set of entries
Perms(S) ==
    {q \in [1..Cardinality(S) -> S] :
        \A a \in 1..Cardinality(S), b \in 1..Cardinality(S) : a # b => q[a] # q[b]}

\* the lists that audio_files.extend(...) can build from pattern n onwards
RECURSIVE Collected(_)
Collected(n) ==
    IF n > Len(Patterns) THEN {<<>>}
    ELSE {p \o rest : p \in Perms(Glob(Patterns[n])), rest \in Collected(n + 1)}

Prefix == IF test_noise THEN "noise_sample_" ELSE "cleaned_"

\* output_dir / f"{prefix}{input_path.name}"
SingleOutputPath(f) ==
    [dir |-> ".", prefix |-> Prefix, stem |-> f.stem, ext |-> f.ext]

\* variant: the parent directory relative to input_dir is dropped
FlatOutputPath(f) ==
    [dir |-> ".", prefix |-> Prefix, stem |-> f.stem, ext |-> f.ext]

\* output_dir / file.relative_to(input_dir).parent / output_filename
BatchOutputPath(f) ==
    [dir |-> f.dir, prefix |-> Prefix, stem |-> f.stem, ext |-> f.ext]

\* Path.mkdir(parents=True, exist_ok=True) of directory d below output_dir
Mkdir(dirs, d) == dirs \cup {".", d}

(***************************************************************************)
(* Inputs.                                                                 *)
(***************************************************************************)
Alphabet == {"1", "5", ".", "-", "%", "a"}

NamedExprs ==
    { Str_start, Str_end, <<"S", "T", "A", "R", "T">>, <<"E", "n", "d">>,
      <<"a", "b", "c">>, <<"1", "-", "2", "-", "3">>,
      <<"1", "e", "-", "3">>, <<"1", "e", "2">>, <<"1", "e", "-", "3", "%">>,
      <<"1", "0", ".", "5", "-", "1", "2", ".", "0">>,
      <<"1", "-", "+", "2">>, <<" ", "5">>, <<"%", "5">> }

Exprs == UNION {[1..n -> Alphabet] : n \in 0..MaxLen} \cup NamedExprs

Durations == {Dec(5, 1), Dec(15, 1), Dec(20, 0)}

\* --noise-position values of the whole-program runs
MainExprs == {Str_start, <<"5", "%">>, <<"a", "b", "c">>}

\* what sf.read returns for a readable file: frames, sample rate, channels
\* (a 20 s mono track at the top level, 1.5 s stereo tracks elsewhere)
FileAudio(f) ==
    IF f.dir = "."
    THEN [len |-> 400, sr |-> 20, channels |-> 1]
    ELSE [len |-> 30, sr |-> 20, channels |-> 2]

\* signals and intervals for the extractor on its own
ExtractAudios ==
    {[len |-> n, sr |-> r, channels |-> 1] : n \in {1, 2, 4, 30}, r \in {5, 10, 20}}

Grid == {Dec(0 - 1, 0), Zero, Dec(5, 2), Tenth, Dec(7, 1), One, Dec(15, 1), Dec(3, 0)}

(***************************************************************************)
(* Initial states.                                                         *)
(***************************************************************************)
Locals0 ==
    /\ input_path = None /\ output_path = None /\ audio = None
    /\ total_duration = None /\ time_range = None /\ noise_clip = None
    /\ cleaned_audio = None /\ success = None /\ failedStep = None

Main0 ==
    /\ outDirs = {} /\ outFiles = {} /\ audio_files = <<>> /\ idx = 0
    /\ success_count = 0 /\ exitCode = 0 - 1 /\ tally = None
    /\ results = <<>> /\ jobs = <<>> /\ steps = <<>> /\ denoiseCalls = 0

Init ==
    /\ pc = "main"
    /\ inputKind \in {"file", "dir", "missing"}
    /\ recursive \in BOOLEAN
    /\ test_noise \in BOOLEAN
    /\ caseInsensitiveGlob \in BOOLEAN
    /\ noise_position \in MainExprs
    /\ tree \in SUBSET TreeUniverse
    /\ CASE inputKind = "file" ->
                \E f \in TreeUniverse : f.kind = "file" /\ f.dir = "." /\ tree = {f}
         [] inputKind = "dir" ->
                Cardinality(tree) <= MaxFiles /\ TreeOK(tree, caseInsensitiveGlob)
         [] inputKind = "missing" -> tree = {}
    /\ Main0
    /\ Locals0

(***************************************************************************)
(* process_file, one action per statement of the try block.  Every         *)
(* statement may raise; the except clause turns that into "return False".  *)
(***************************************************************************)
Log(step, ok) == steps' = Append(steps, [step |-> step, ok |-> ok])

\* variant: the handler reports success
ExceptReturnTrue == TRUE

\* the value returned by the except branch
ExceptReturn == FALSE

\* "except Exception" covers the whole body: whichever statement raises,
\* the handler runs
Caught(step) == step \in {"read", "downmix", "parse", "extract", "denoise", "write"}

\* except Exception as e: print(...); return False
\* (an exception that no handler catches ends the process with a traceback)
Raise(step) ==
    /\ failedStep' = step
    /\ Log(step, FALSE)
    /\ IF Caught(step)
       THEN success' = ExceptReturn /\ pc' = "pf_return"
       ELSE success' = None /\ pc' = "crashed"

MainVars ==
    <<inputKind, tree, recursive, test_noise, noise_position,
      caseInsensitiveGlob, outDirs, audio_files, idx, success_count,
      exitCode, tally, results, jobs, input_path, output_path>>

\* the call of nr.reduce_noise is counted, whether it returns or raises
NoDenoise == UNCHANGED denoiseCalls

\* audio, sr = sf.read(input_path); total_duration = len(audio) / sr
PF_Read ==
    /\ pc = "pf_read"
    /\ \/ /\ Raise("read")
          /\ UNCHANGED <<audio, total_duration>>
       \/ /\ input_path.kind = "file"
          /\ audio' = FileAudio(input_path)
          /\ total_duration' = DivInt(FileAudio(input_path).len, FileAudio(input_path).sr)
          /\ pc' = "pf_downmix"
          /\ Log("read", TRUE)
          /\ UNCHANGED <<success, failedStep>>
    /\ NoDenoise
    /\ UNCHANGED <<MainVars, outFiles, time_range, noise_clip, cleaned_audio>>

\* if len(audio.shape) > 1: audio = np.mean(audio, axis=1)
PF_Downmix ==
    /\ pc = "pf_downmix"
    /\ \/ /\ audio.channels > 1
          /\ Raise("downmix")
          /\ UNCHANGED audio
       \/ /\ audio' = IF audio.channels > 1 THEN [audio EXCEPT !.channels = 1] ELSE audio
          /\ pc' = "pf_parse"
          /\ Log("downmix", TRUE)
          /\ UNCHANGED <<success, failedStep>>
    /\ NoDenoise
    /\ UNCHANGED <<MainVars, outFiles, total_duration, time_range, noise_clip,
                   cleaned_audio>>

\* time_range = parse_time_range(noise_position, total_duration)
PF_Parse ==
    /\ pc = "pf_parse"
    /\ \/ /\ parse_time_range(noise_position, total_duration).raised
          /\ Raise("parse")
          /\ UNCHANGED time_range
       \/ /\ ~parse_time_range(noise_position, total_duration).raised
          /\ time_range' = parse_time_range(noise_position, total_duration).val
          /\ pc' = "pf_extract"
          /\ Log("parse", TRUE)
          /\ UNCHANGED <<success, failedStep>>
    /\ NoDenoise
    /\ UNCHANGED <<MainVars, outFiles, audio, total_duration, noise_clip,
                   cleaned_audio>>

\* noise_clip = extract_noise_clip(audio, sr, time_range, total_duration)
PF_Extract ==
    /\ pc = "pf_extract"
    /\ \/ /\ Raise("extract")
          /\ UNCHANGED noise_clip
       \/ /\ noise_clip' = extract_noise_clip(audio, audio.sr, time_range, total_duration)
          /\ pc' = "pf_denoise"
          /\ Log("extract", TRUE)
          /\ UNCHANGED <<success, failedStep>>
    /\ NoDenoise
    /\ UNCHANGED <<MainVars, outFiles, audio, total_duration, time_range,
                   cleaned_audio>>

\* the external denoiser returns a signal as long as its input
reduce_noise(y, y_noise) == [kind |-> "cleaned", len |-> y.len, sr |-> y.sr]

\* cleaned_audio = nr.reduce_noise(y=audio, y_noise=noise_clip, sr=sr, **params)
PF_Denoise ==
    /\ pc = "pf_denoise"
    /\ \/ /\ Raise("denoise")
          /\ UNCHANGED cleaned_audio
       \/ /\ cleaned_audio' = reduce_noise(audio, noise_clip)
          /\ pc' = "pf_write"
          /\ Log("denoise", TRUE)
          /\ UNCHANGED <<success, failedStep>>
    /\ denoiseCalls' = denoiseCalls + 1
    /\ UNCHANGED <<MainVars, outFiles, audio, total_duration, time_range,
                   noise_clip>>

\* sf.write(path, data, sr): creates or overwrites the file at path
WriteFile(files, path, data) ==
    {w \in files : w.path # path} \cup {[path |-> path, content |-> data]}

\* sf.write(output_path, cleaned_audio, sr); return True
PF_Write ==
    /\ pc = "pf_write"
    /\ \/ /\ Raise("write")
          /\ UNCHANGED outFiles
       \/ /\ outFiles' = WriteFile(outFiles, output_path, cleaned_audio)
          /\ success' = TRUE
          /\ pc' = "pf_return"
          /\ Log("write", TRUE)
          /\ UNCHANGED failedStep
    /\ NoDenoise
    /\ UNCHANGED <<MainVars, audio, total_duration, time_range, noise_clip,
                   cleaned_audio>>

(***************************************************************************)
(* main                                                                    *)
(***************************************************************************)
EnvVars ==
    <<inputKind, tree, recursive, test_noise, noise_position, caseInsensitiveGlob>>

LocalVars ==
    <<input_path, output_path, audio, total_duration, time_range, noise_clip,
      cleaned_audio, success, failedStep, steps>>

\* the return of process_file: its frame is gone, the caller holds the result
Return ==
    /\ input_path' = None /\ output_path' = None
    /\ audio' = None /\ total_duration' = None /\ time_range' = None
    /\ noise_clip' = None /\ cleaned_audio' = None /\ failedStep' = None
    /\ steps' = <<>>
    /\ UNCHANGED success

\* the entry of process_file: fresh locals
Call(inp, outp) ==
    /\ input_path' = inp /\ output_path' = outp
    /\ audio' = None /\ total_duration' = None /\ time_range' = None
    /\ noise_clip' = None /\ cleaned_audio' = None /\ success' = None
    /\ failedStep' = None /\ steps' = <<>>
    /\ jobs' = Append(jobs, [input |-> inp, output |-> outp])
    /\ pc' = "pf_read"

\* output_dir.mkdir(parents=True, exist_ok=True), before args.input is looked at
MkOutputDir ==
    /\ pc = "main"
    /\ outDirs' = Mkdir(outDirs, ".")
    /\ pc' = "dispatch"
    /\ UNCHANGED <<EnvVars, LocalVars, outFiles, audio_files, idx, success_count,
                   exitCode, tally, results, jobs, denoiseCalls>>

\* if os.path.isfile(args.input): ... success = process_file(...)
SingleFile ==
    /\ pc = "dispatch"
    /\ inputKind = "file"
    /\ \E f \in tree : Call(f, SingleOutputPath(f))
    /\ UNCHANGED <<EnvVars, outDirs, outFiles, audio_files, idx, success_count,
                   exitCode, tally, results, denoiseCalls>>

\* if success: print(...) else: print("❌ 处理失败"); main returns
SingleReturn ==
    /\ pc = "pf_return"
    /\ inputKind = "file"
    /\ results' = Append(results, success)
    /\ exitCode' = 0
    /\ pc' = "done"
    /\ Return
    /\ UNCHANGED <<EnvVars, outDirs, outFiles, audio_files, idx,
                   success_count, tally, jobs, denoiseCalls>>

\* elif os.path.isdir(args.input): collect; if not audio_files: return
CollectFiles ==
    /\ pc = "dispatch"
    /\ inputKind = "dir"
    /\ \E lst \in Collected(1) :
          /\ audio_files' = lst
          /\ IF lst = <<>>
             THEN pc' = "done" /\ exitCode' = 0
             ELSE pc' = "loop" /\ UNCHANGED exitCode
    /\ success_count' = 0
    /\ UNCHANGED <<EnvVars, LocalVars, outDirs, outFiles, idx, tally, results, jobs, denoiseCalls>>

\* for file in audio_files: output_path = ...; mkdir; process_file(...)
LoopNext ==
    /\ pc = "loop"
    /\ idx < Len(audio_files)
    /\ idx' = idx + 1
    /\ LET file == audio_files[idx + 1]
           outp == BatchOutputPath(file)
       IN  /\ outDirs' = Mkdir(outDirs, outp.dir)
           /\ Call(file, outp)
    /\ UNCHANGED <<EnvVars, outFiles, audio_files, success_count, exitCode,
                   tally, results, denoiseCalls>>

\* variant: the counter is advanced for every file
CountEvery(count, ok) == count + 1

\* if success: success_count += 1
CountSuccess(count, ok) == IF ok THEN count + 1 ELSE count

\* the return into the for loop; tqdm then yields the next file
LoopReturn ==
    /\ pc = "pf_return"
    /\ inputKind = "dir"
    /\ success_count' = CountSuccess(success_count, success)
    /\ results' = Append(results, success)
    /\ pc' = "loop"
    /\ Return
    /\ UNCHANGED <<EnvVars, outDirs, outFiles, audio_files, idx,
                   exitCode, tally, jobs, denoiseCalls>>

\* print(f"处理完成! 成功: {success_count}/{len(audio_files)}"); main returns
LoopEnd ==
    /\ pc = "loop"
    /\ idx = Len(audio_files)
    /\ tally' = [succeeded |-> success_count, total |-> Len(audio_files)]
    /\ exitCode' = 0
    /\ pc' = "done"
    /\ UNCHANGED <<EnvVars, LocalVars, outDirs, outFiles, audio_files, idx,
                   success_count, results, jobs, denoiseCalls>>

\* the status passed to sys.exit in the final else branch
MissingExit == 1

\* else: print("❌ 路径不存在"); sys.exit(1)
PathMissing ==
    /\ pc = "dispatch"
    /\ inputKind = "missing"
    /\ exitCode' = MissingExit
    /\ pc' = "done"
    /\ UNCHANGED <<EnvVars, LocalVars, outDirs, outFiles, audio_files, idx,
                   success_count, tally, results, jobs, denoiseCalls>>

Next ==
    \/ MkOutputDir \/ SingleFile \/ SingleReturn \/ CollectFiles
    \/ LoopNext \/ LoopReturn \/ LoopEnd \/ PathMissing
    \/ PF_Read \/ PF_Downmix \/ PF_Parse \/ PF_Extract \/ PF_Denoise \/ PF_Write

Spec == Init /\ [][Next]_vars

(***************************************************************************)
(* The parser and the extractor on their own: the inputs are drawn in the  *)
(* initial state and one action applies the function.                      *)
(***************************************************************************)
Env0 ==
    /\ inputKind = "missing" /\ tree = {} /\ recursive = FALSE
    /\ test_noise = FALSE /\ caseInsensitiveGlob = FALSE

InitParse ==
    /\ pc = "fn_parse"
    /\ noise_position \in Exprs
    /\ total_duration \in Durations
    /\ Env0 /\ Main0
    /\ input_path = None /\ output_path = None /\ audio = None
    /\ time_range = None /\ noise_clip = None
    /\ cleaned_audio = None /\ success = None /\ failedStep = None

FnParse ==
    /\ pc = "fn_parse"
    /\ LET r == parse_time_range(noise_position, total_duration)
       IN  /\ time_range' = r.val
           /\ failedStep' = IF r.raised THEN "parse" ELSE None
    /\ pc' = "fn_done"
    /\ UNCHANGED <<EnvVars, outDirs, outFiles, audio_files, idx, success_count,
                   exitCode, tally, results, jobs, steps, denoiseCalls, input_path, output_path,
                   audio, total_duration, noise_clip, cleaned_audio, success>>

SpecParse == InitParse /\ [][FnParse]_vars

InitExtract ==
    /\ pc = "fn_extract"
    /\ audio \in ExtractAudios
    /\ total_duration = DivInt(audio.len, audio.sr)
    /\ time_range \in Grid \X Grid
    /\ noise_position = <<>>
    /\ Env0 /\ Main0
    /\ input_path = None /\ output_path = None /\ noise_clip = None
    /\ cleaned_audio = None /\ success = None /\ failedStep = None

FnExtract ==
    /\ pc = "fn_extract"
    /\ noise_clip' = extract_noise_clip(audio, audio.sr, time_range, total_duration)
    /\ pc' = "fn_done"
    /\ UNCHANGED <<EnvVars, outDirs, outFiles, audio_files, idx, success_count,
                   exitCode, tally, results, jobs, steps, denoiseCalls, input_path, output_path,
                   audio, total_duration, time_range, cleaned_audio, success,
                   failedStep>>

SpecExtract == InitExtract /\ [][FnExtract]_vars

(***************************************************************************)
(* The grammar of time-range expressions, stated on the shape of the       *)
(* string rather than by scanning it.                                      *)
(***************************************************************************)
IsDigits(s) == Len(s) > 0 /\ \A j \in 1..Len(s) : s[j] \in Digit

IsMantissa(s) ==
    \/ IsDigits(s)
    \/ /\ Len(s) >= 2
       /\ \E p \in 1..Len(s) :
             s[p] = "." /\ \A j \in (1..Len(s)) \ {p} : s[j] \in Digit

IsExponent(s) ==
    IsDigits(s) \/ (Len(s) >= 2 /\ s[1] \in {"+", "-"} /\ IsDigits(Tail(s)))

IsUnsigned(s) ==
    \/ IsMantissa(s)
    \/ \E p \in 2..(Len(s) - 1) :
          /\ s[p] \in {"e", "E"}
          /\ IsMantissa(SubSeq(s, 1, p - 1))
          /\ IsExponent(SubSeq(s, p + 1, Len(s)))

IsNumber(s) ==
    IsUnsigned(s) \/ (Len(s) >= 2 /\ s[1] \in {"+", "-"} /\ IsUnsigned(Tail(s)))

\* a number, possibly surrounded by blanks
IsFloatLiteral(s) ==
    \E a \in 1..Len(s), b \in 1..Len(s) :
        /\ a <= b
        /\ \A j \in 1..(a - 1) : s[j] = " "
        /\ \A j \in (b + 1)..Len(s) : s[j] = " "
        /\ IsNumber(SubSeq(s, a, b))

\* a number with percent signs around it
IsPercent(s) ==
    /\ Contains(s, "%")
    /\ \E a \in 1..Len(s), b \in 1..Len(s) :
          /\ a <= b
          /\ \A j \in 1..(a - 1) : s[j] = "%"
          /\ \A j \in (b + 1)..Len(s) : s[j] = "%"
          /\ IsFloatLiteral(SubSeq(s, a, b))

\* two numbers with a single '-' between them
IsRange(s) ==
    \E p \in 1..Len(s) :
        /\ s[p] = "-"
        /\ \A j \in (1..Len(s)) \ {p} : s[j] # "-"
        /\ IsFloatLiteral(SubSeq(s, 1, p - 1))
        /\ IsFloatLiteral(SubSeq(s, p + 1, Len(s)))

IsKeyword(s) == Lower(s) \in {Str_start, Str_end}

\* an expression on which the rule that applies to it finds no number(s)
Malformed(s) ==
    /\ ~IsKeyword(s)
    /\ IF Contains(s, "%") THEN ~IsPercent(s)
       ELSE IF Contains(s, "-") THEN ~IsRange(s)
       ELSE ~IsFloatLiteral(s)

IsDec(x) == DOMAIN x = {"m", "k"} /\ x.m \in Int /\ x.k \in Nat

PFpcs ==
    {"pf_read", "pf_downmix", "pf_parse", "pf_extract", "pf_denoise",
     "pf_write", "pf_return"}

RECURSIVE CountTrue(_)
CountTrue(q) ==
    IF q = <<>> THEN 0 ELSE (IF Head(q) = TRUE THEN 1 ELSE 0) + CountTrue(Tail(q))

NoDup(q) == \A a \in DOMAIN q, b \in DOMAIN q : a # b => q[a] # q[b]

(***************************************************************************)
(* C1.  With the test-noise flag set, the denoiser is never invoked and    *)
(* every file written is the extracted noise clip, under a noise_sample_   *)
(* name.                                                                   *)
(***************************************************************************)
C1_TestNoiseWritesClip ==
    test_noise =>
        /\ denoiseCalls = 0
        /\ \A w \in outFiles :
              /\ w.path.prefix = "noise_sample_"
              /\ w.content.kind = "noise_clip"

(***************************************************************************)
(* C2.  When the input path is neither a file nor a directory, the run     *)
(* ends with a non-zero status, processes no file and at no point creates  *)
(* the output directory.                                                   *)
(***************************************************************************)
C2_MissingInputLeavesNothing ==
    inputKind = "missing" =>
        /\ outDirs = {}
        /\ outFiles = {}
        /\ jobs = <<>>
        /\ (pc = "done" => exitCode \notin {0 - 1, 0})

(***************************************************************************)
(* C3.  In directory mode the run never stops before the list is           *)
(* exhausted: every state before the end has a next step, the run ends     *)
(* only after every list entry was attempted, the tally shows the number   *)
(* of calls that returned true out of the number of discovered entries,    *)
(* 0 <= succeeded <= attempted holds throughout, both counters only grow,  *)
(* and the exit status is 0 whatever the per-file results.                 *)
(***************************************************************************)
\* every step but PF_Parse, which can always be taken at "pf_parse"
C3_OtherSteps ==
    \/ MkOutputDir \/ SingleFile \/ SingleReturn \/ CollectFiles
    \/ LoopNext \/ LoopReturn \/ LoopEnd \/ PathMissing
    \/ PF_Read \/ PF_Downmix \/ PF_Extract \/ PF_Denoise \/ PF_Write

C3_State ==
    inputKind = "dir" =>
        /\ pc # "crashed"
        /\ (pc \notin {"done", "pf_parse"} => ENABLED C3_OtherSteps)
        /\ 0 <= success_count /\ success_count <= Len(results)
        /\ Len(results) <= idx /\ idx <= Len(audio_files)
        /\ success_count = CountTrue(results)
        /\ exitCode \in {0 - 1, 0}
        /\ (pc = "done") = (exitCode = 0)
        /\ (pc = "done" =>
               /\ idx = Len(audio_files)
               /\ Len(results) = Len(audio_files)
               /\ (audio_files # <<>> =>
                      tally = [succeeded |-> CountTrue(results),
                               total |-> Len(audio_files)]))

C3_Step == success_count' >= success_count /\ idx' >= idx

C4_ProcessFileReturnsBool ==
    /\ pc # "crashed"
    /\ (pc = "pf_return" =>
           /\ success \in BOOLEAN
           /\ (failedStep # None => success = FALSE)
           /\ (success = TRUE =>
                  /\ failedStep = None
                  /\ steps[Len(steps)] = [step |-> "write", ok |-> TRUE]
                  /\ [path |-> output_path, content |-> cleaned_audio] \in outFiles)
           /\ (failedStep \in {"read", "extract", "denoise"} =>
                  \A j \in DOMAIN steps : steps[j].step # "write"))

C4_Witness ==
    /\ pc = "pf_return" /\ failedStep = "denoise" /\ success = FALSE
    /\ \A w \in outFiles : w.path # output_path

(***************************************************************************)
(* C5.  parse_time_range never raises and always returns an interval; for  *)
(* every malformed expression the interval is exactly (0.0, 1.0).          *)
(***************************************************************************)
C5_ParseTotalWithFallback ==
    pc = "fn_done" =>
        /\ failedStep = None
        /\ Len(time_range) = 2 /\ IsDec(time_range[1]) /\ IsDec(time_range[2])
        /\ (Malformed(noise_position) => time_range = <<Dec(0, 0), Dec(1, 0)>>)

C5_Witness ==
    /\ pc = "fn_done"
    /\ noise_position = <<"1", "-", "2", "-", "3">>
    /\ time_range = <<Dec(0, 0), Dec(1, 0)>>

(***************************************************************************)
(* C6.  For every interval, every sample rate and every total duration of  *)
(* at least 0.2 s, the extracted clip is non-empty and                     *)
(* 0 <= start_sample < end_sample <= sample_count, with clamped times      *)
(* 0 <= start' and start' + 0.1 <= end' <= total_duration.                 *)
(***************************************************************************)
C6_ClipNonEmptyInside ==
    (pc = "fn_done" /\ DLe(Dec(2, 1), total_duration)) =>
        /\ noise_clip.len > 0
        /\ 0 <= noise_clip.start_sample
        /\ noise_clip.start_sample < noise_clip.end_sample
        /\ noise_clip.end_sample <= audio.len
        /\ DLe(Dec(0, 0), noise_clip.start_time)
        /\ DLe(DAdd(noise_clip.start_time, Dec(1, 1)), noise_clip.end_time)
        /\ DLe(noise_clip.end_time, total_duration)

(***************************************************************************)
(* C7.  In directory mode the collected files are exactly the regular      *)
(* files whose extension, ignoring case, is one of the five supported      *)
(* ones, those in subdirectories included iff the recursive flag is set;   *)
(* when there are none, no file is processed and nothing is written.       *)
(***************************************************************************)
Supported(f) ==
    /\ f.kind = "file"
    /\ \E n \in DOMAIN extensions : LowerExt(f.ext) = extensions[n]
    /\ (recursive \/ f.dir = ".")

C7_CollectsSupportedFiles ==
    (inputKind = "dir" /\ pc \notin {"main", "dispatch"}) =>
        /\ {audio_files[j] : j \in DOMAIN audio_files} = {f \in tree : Supported(f)}
        /\ ({f \in tree : Supported(f)} = {} => jobs = <<>> /\ outFiles = {})

(***************************************************************************)
(* C8.  In directory mode every job's output path is                       *)
(* output_dir / parent relative to the input directory / prefix + name,    *)
(* with prefix cleaned_ or noise_sample_ per mode; that parent directory   *)
(* exists when process_file is entered; two different files never get the  *)
(* same output path.                                                       *)
(***************************************************************************)
C8_MirroredOutputPaths ==
    inputKind = "dir" =>
        /\ \A j \in DOMAIN jobs :
              /\ jobs[j].input = audio_files[j]
              /\ jobs[j].output =
                    [dir |-> jobs[j].input.dir,
                     prefix |-> IF test_noise THEN "noise_sample_" ELSE "cleaned_",
                     stem |-> jobs[j].input.stem,
                     ext |-> jobs[j].input.ext]
              /\ jobs[j].output.dir \in outDirs
        /\ (pc \in PFpcs =>
               /\ input_path = jobs[Len(jobs)].input
               /\ output_path = jobs[Len(jobs)].output
               /\ output_path.dir \in outDirs)
        /\ \A a \in DOMAIN jobs, b \in DOMAIN jobs :
              jobs[a].input # jobs[b].input => jobs[a].output # jobs[b].output

C8_Witness ==
    /\ inputKind = "dir" /\ pc = "pf_read" /\ Len(jobs) = 2
    /\ jobs[1].input.dir # jobs[2].input.dir
    /\ jobs[1].input.stem = jobs[2].input.stem
    /\ jobs[1].input.ext = jobs[2].input.ext
    /\ output_path.dir = "sub" /\ "sub" \in outDirs

(***************************************************************************)
(* C9.  parse_time_range applies its rules in the order start, end,        *)
(* percentage, range, bare float; every expression that is one float       *)
(* number (a negative one or one with an exponent included) yields         *)
(* (position, position + 1.0).                                             *)
(***************************************************************************)
C9_BareFloatIsPosition ==
    pc = "fn_done" =>
        /\ (Lower(noise_position) = Str_start => time_range = <<Dec(0, 0), Dec(1, 0)>>)
        /\ (Lower(noise_position) = Str_end =>
               time_range = <<DSub(total_duration, Dec(1, 0)), total_duration>>)
        /\ (IsPercent(noise_position) => time_range[1] = Dec(0, 0))
        /\ (IsFloatLiteral(noise_position) =>
               time_range = <<PyFloat(noise_position).val,
                              DAdd(PyFloat(noise_position).val, Dec(1, 0))>>)

(***************************************************************************)
(* C10.  In directory mode no file appears twice in the list, the list is  *)
(* fixed before the first job, the jobs are the list entries in order,     *)
(* one per entry, and a job has returned before the next one starts.       *)
(***************************************************************************)
C10_EachFileOnceInOrder ==
    inputKind = "dir" =>
        /\ NoDup(audio_files)
        /\ Len(jobs) = idx
        /\ \A j \in DOMAIN jobs : jobs[j].input = audio_files[j]
        /\ (pc \in PFpcs => Len(results) = Len(jobs) - 1)
        /\ (pc \notin PFpcs => Len(results) = Len(jobs))

\* the scanner and the grammar accept the same strings
ScanMatchesGrammar ==
    pc = "fn_parse" => (PyFloat(noise_position).ok <=> IsFloatLiteral(noise_position))

====
